---- MODULE Spec2Model ----
(***************************************************************************)
(* Model of the file helpers (getLocalPath, visitFiles,                    *)
(* visitMarkdownFiles) and of the bundler plugins of rollup.ts             *)
(* (resolveImport, importMetaResolve.transform).                           *)
(*                                                                         *)
(* Strings are TLA+ strings; paths follow the POSIX flavour of node:path.  *)
(***************************************************************************)
EXTENDS Integers, Sequences, FiniteSets, TLC

VARIABLES
  \* getLocalPath
  sourcePath, name, localPath, pathPc,
  \* visitFiles / visitMarkdownFiles
  root, queue, idx, visited, yielded, mdYielded, kind, listing, pc, errPath,
  \* resolveImport
  source, specifier, resolution, npmCalls, resolvePc,
  \* importMetaResolve.transform
  code, program, resolves, nodeIdx, edits, rewriteCalls, transformed, transformPc

pathVars == <<sourcePath, name, localPath, pathPc>>
walkVars == <<root, queue, idx, visited, yielded, mdYielded, kind, listing, pc, errPath>>
resolveVars == <<source, specifier, resolution, npmCalls, resolvePc>>
transformVars == <<code, program, resolves, nodeIdx, edits, rewriteCalls, transformed, transformPc>>
vars == <<pathVars, walkVars, resolveVars, transformVars>>

----------------------------------------------------------------------------
(* Bounds of the model. *)
MaxNameLen == 4
MaxSourceLen == 3
MaxNodes == 3
MaxEntries == 4
MaxStatements == 3

----------------------------------------------------------------------------
(* Strings. *)

Char(s, i) == SubSeq(s, i, i)

StartsWith(s, p) == Len(s) >= Len(p) /\ SubSeq(s, 1, Len(p)) = p

EndsWith(s, p) == Len(s) >= Len(p) /\ SubSeq(s, Len(s) - Len(p) + 1, Len(s)) = p

Slice(s, n) == SubSeq(s, n + 1, Len(s))

RECURSIVE StringsUpTo(_, _)
StringsUpTo(alphabet, n) ==
  IF n = 0 THEN {""}
  ELSE LET prev == StringsUpTo(alphabet, n - 1)
       IN  prev \cup {s \o c : s \in prev, c \in alphabet}

\* The absence value (null) and a present value.
Null == <<>>
Some(v) == <<v>>

----------------------------------------------------------------------------
(* Each component is run on its own; the others stay as constructed. *)

IdlePath == sourcePath = "" /\ name = "" /\ localPath = Null /\ pathPc = "idle"

IdleWalk ==
  /\ root = "" /\ queue = <<>> /\ idx = 0 /\ visited = {}
  /\ yielded = <<>> /\ mdYielded = <<>> /\ kind = <<>> /\ listing = <<>>
  /\ pc = "idle" /\ errPath = ""

IdleResolve ==
  /\ source = "" /\ specifier = Null /\ resolution = Null /\ npmCalls = <<>>
  /\ resolvePc = "idle"

IdleTransform ==
  /\ code = "" /\ program = <<>> /\ resolves = <<>> /\ nodeIdx = 0
  /\ edits = <<>> /\ rewriteCalls = <<>> /\ transformed = Null
  /\ transformPc = "idle"

----------------------------------------------------------------------------
(* node:path (posix).  The helpers are functions, so that an argument is    *)
(* a value by the time it is used.                                          *)

Strs == STRING
Segs == Seq(STRING)

\* The segments of s between "/" separators, empty segments included.
SplitFrom[s \in Strs, i \in Nat, cur \in Strs, acc \in Segs] ==
  IF i > Len(s) THEN Append(acc, cur)
  ELSE IF Char(s, i) = "/" THEN SplitFrom[s, i + 1, "", Append(acc, cur)]
  ELSE SplitFrom[s, i + 1, cur \o Char(s, i), acc]

Split(s) == SplitFrom[s, 1, "", <<>>]

JoinFrom[segs \in Segs, i \in Nat] ==
  IF i > Len(segs) THEN ""
  ELSE IF i = Len(segs) THEN segs[i]
  ELSE segs[i] \o "/" \o JoinFrom[segs, i + 1]

JoinSegments(segs) == JoinFrom[segs, 1]

\* normalizeString: drops "" and ".", resolves ".." against the segment before
\* it, and keeps a leading ".." only when allowAboveRoot.
NormalizeFrom[segs \in Segs, i \in Nat, res \in Segs, allowAboveRoot \in BOOLEAN] ==
  IF i > Len(segs) THEN res
  ELSE IF segs[i] = "" \/ segs[i] = "." THEN NormalizeFrom[segs, i + 1, res, allowAboveRoot]
  ELSE IF segs[i] = ".."
    THEN IF Len(res) > 0 /\ res[Len(res)] # ".."
           THEN NormalizeFrom[segs, i + 1, SubSeq(res, 1, Len(res) - 1), allowAboveRoot]
         ELSE IF allowAboveRoot
           THEN NormalizeFrom[segs, i + 1, Append(res, ".."), allowAboveRoot]
         ELSE NormalizeFrom[segs, i + 1, res, allowAboveRoot]
  ELSE NormalizeFrom[segs, i + 1, Append(res, segs[i]), allowAboveRoot]

NormalizeSegments(segs, allowAboveRoot) == NormalizeFrom[segs, 1, <<>>, allowAboveRoot]

\* normalize, given the joined normalized segments p of path.
NormalizeWith[path \in Strs, p \in Strs] ==
  LET isAbsolute == Char(path, 1) = "/"
      trailingSeparator == Char(path, Len(path)) = "/"
  IN  IF Len(p) = 0
        THEN IF isAbsolute THEN "/" ELSE IF trailingSeparator THEN "./" ELSE "."
      ELSE LET q == IF trailingSeparator THEN p \o "/" ELSE p
           IN  IF isAbsolute THEN "/" \o q ELSE q

Normalize[path \in Strs] ==
  IF Len(path) = 0 THEN "."
  ELSE NormalizeWith[path, JoinSegments(NormalizeSegments(Split(path), Char(path, 1) # "/"))]

normalize(path) == Normalize[path]

Join[a \in Strs, b \in Strs] ==
  IF Len(a) = 0 /\ Len(b) = 0 THEN "."
  ELSE IF Len(a) = 0 THEN normalize(b)
  ELSE IF Len(b) = 0 THEN normalize(a)
  ELSE normalize(a \o "/" \o b)

join(a, b) == Join[a, b]

\* The index of the last "/" that ends the directory part (trailing "/" are
\* skipped, the first character is never looked at), or 0.
DirnameEnd[path \in Strs, i \in Nat, matchedSlash \in BOOLEAN] ==
  IF i < 2 THEN 0
  ELSE IF Char(path, i) = "/"
    THEN IF ~matchedSlash THEN i ELSE DirnameEnd[path, i - 1, matchedSlash]
  ELSE DirnameEnd[path, i - 1, FALSE]

Dirname[path \in Strs] ==
  IF Len(path) = 0 THEN "."
  ELSE LET hasRoot == Char(path, 1) = "/"
           end == DirnameEnd[path, Len(path), TRUE]
       IN  IF end = 0 THEN (IF hasRoot THEN "/" ELSE ".")
           ELSE IF hasRoot /\ end = 2 THEN "//"
           ELSE SubSeq(path, 1, end - 1)

dirname(path) == Dirname[path]

----------------------------------------------------------------------------
(* getLocalPath *)

IsWordChar(c) == c \in {"a", "b", "_", "0"}

\* /^\w+:/
UrlPrefixFrom[s \in Strs, i \in Nat] ==
  IF i > Len(s) THEN FALSE
  ELSE IF Char(s, i) = ":" THEN i > 1
  ELSE IF IsWordChar(Char(s, i)) THEN UrlPrefixFrom[s, i + 1]
  ELSE FALSE

IsUrl(s) == UrlPrefixFrom[s, 1]

getLocalPath(sp, nm) ==
  IF IsUrl(nm) THEN Null
  ELSE LET path == join(dirname(IF StartsWith(sp, "/") THEN Slice(sp, 1) ELSE sp), nm)
       IN  IF StartsWith(path, "../") THEN Null
           ELSE Some(path)

SourcePaths == StringsUpTo({"a", "/"}, MaxSourceLen)
LocalNames == StringsUpTo({"a", ".", "/", ":"}, MaxNameLen)

GetLocalPath ==
  /\ pathPc = "idle"
  /\ \E sp \in SourcePaths, nm \in LocalNames :
       /\ sourcePath' = sp
       /\ name' = nm
       /\ localPath' = getLocalPath(sp, nm)
  /\ pathPc' = "returned"
  /\ UNCHANGED <<walkVars, resolveVars, transformVars>>

PathInit == IdlePath /\ IdleWalk /\ IdleResolve /\ IdleTransform

PathNext == GetLocalPath

PathSpec == PathInit /\ [][PathNext]_vars

\* Whether resolving nm from the directory of sp (its leading "/" stripped)
\* steps above the root: segment by segment, counting the depth below root.
AscendsFrom[segs \in Segs, i \in Nat, depth \in Int] ==
  IF depth < 0 THEN TRUE
  ELSE IF i > Len(segs) THEN FALSE
  ELSE IF segs[i] = "" \/ segs[i] = "." THEN AscendsFrom[segs, i + 1, depth]
  ELSE IF segs[i] = ".." THEN AscendsFrom[segs, i + 1, depth - 1]
  ELSE AscendsFrom[segs, i + 1, depth + 1]

AscendsPastRoot(sp, nm) ==
  AscendsFrom[Split(dirname(IF StartsWith(sp, "/") THEN Slice(sp, 1) ELSE sp)) \o Split(nm), 1, 0]

\* C3: when resolving name from the directory of sourcePath would ascend past
\* the root, getLocalPath returns null; a result that is not null neither is
\* nor begins with the segment "..".
C3_LocalPathStaysInRoot ==
  pathPc = "returned" =>
    /\ AscendsPastRoot(sourcePath, name) => localPath = Null
    /\ localPath # Null => Split(localPath[1])[1] # ".."

----------------------------------------------------------------------------
(* node:path relative and extname. *)

\* The working directory relative paths are resolved against.
Cwd == "/w"

resolve(path) == IF StartsWith(path, "/") THEN normalize(path) ELSE normalize(Cwd \o "/" \o path)

PathSegments(abs) == NormalizeSegments(Split(abs), FALSE)

CommonPrefixLen[a \in Segs, b \in Segs, i \in Nat] ==
  IF i > Len(a) \/ i > Len(b) THEN i - 1
  ELSE IF a[i] # b[i] THEN i - 1
  ELSE CommonPrefixLen[a, b, i + 1]

\* One ".." for each segment of from past the common prefix, then the rest of to.
RelativeSegments[f \in Segs, t \in Segs] ==
  LET c == CommonPrefixLen[f, t, 1]
  IN  [i \in 1..(Len(f) - c) |-> ".."] \o SubSeq(t, c + 1, Len(t))

relative(from, to) ==
  JoinSegments(RelativeSegments[PathSegments(resolve(from)), PathSegments(resolve(to))])

LastIndexOf[s \in Strs, c \in Strs, i \in Nat] ==
  IF i = 0 THEN 0
  ELSE IF Char(s, i) = c THEN i
  ELSE LastIndexOf[s, c, i - 1]

Basename[path \in Strs] == SubSeq(path, LastIndexOf[path, "/", Len(path)] + 1, Len(path))

basename(path) == Basename[path]

\* From the last "." of the base name to its end; "" when there is no ".",
\* when the base name starts with its only "." or is "..".
ExtOfBase[b \in Strs] ==
  LET d == LastIndexOf[b, ".", Len(b)]
  IN  IF d = 0 \/ d = 1 \/ b = ".." THEN ""
      ELSE SubSeq(b, d, Len(b))

extname(path) == ExtOfBase[basename(path)]

----------------------------------------------------------------------------
(* The file system, as stat and readdir report it.  A directory's listing  *)
(* is fixed when readdir reads it; an entry may lead to a new inode or     *)
(* (a symbolic link, a bind mount, a hard link) to one seen before.        *)

NumNodes == Len(kind)

EntryName(i, variant) ==
  IF variant = "dot" THEN ".md"
  ELSE "e" \o ToString(i) \o (IF variant = "md" THEN ".md" ELSE "")

\* What one directory entry may be: target 0 is a new inode of kind k.
EntryChoices ==
  {e \in [target : 0..NumNodes, k : {"dir", "file"}, variant : {"plain", "md", "dot"}] :
      /\ e.target > 0 => e.k = kind[e.target] /\ e.variant = "plain"
      /\ e.k = "dir" => e.variant = "plain"}

\* The directory entries read so far, over all directories.
RECURSIVE EntriesRead(_)
EntriesRead(n) == IF n = 0 THEN 0 ELSE Len(listing[n]) + EntriesRead(n - 1)

NewBefore(es, i) == Cardinality({j \in 1..(i - 1) : es[j].target = 0})

ListingChoices ==
  {es \in UNION {[1..l -> EntryChoices] : l \in 0..(MaxEntries - EntriesRead(NumNodes))} :
      /\ NumNodes + NewBefore(es, Len(es) + 1) <= MaxNodes
      /\ \A i \in 1..Len(es) : es[i].variant = "dot" => i = 1}

\* readdir(path): the entries as [name, ino], new inodes numbered in order.
readdir(es) ==
  [i \in 1..Len(es) |->
     [name |-> EntryName(i, es[i].variant),
      ino |-> IF es[i].target = 0 THEN NumNodes + NewBefore(es, i) + 1 ELSE es[i].target]]

NewKinds(es) ==
  LET new == SelectSeq([i \in 1..Len(es) |-> es[i]], LAMBDA e : e.target = 0)
  IN  [i \in 1..Len(new) |-> new[i].k]

----------------------------------------------------------------------------
(* visitFiles and visitMarkdownFiles *)

RootInputs == {".", "./r/"}

\* A queue item is a path, with the inode stat reports for it.
\* const visited = new Set(); const queue = [(root = normalize(root))];
WalkInit ==
  /\ \E r \in RootInputs, k \in {"dir", "file"} :
       /\ root = normalize(r)
       /\ queue = <<[path |-> normalize(r), ino |-> 1]>>
       /\ kind = <<k>>
  /\ idx = 1
  /\ visited = {}
  /\ yielded = <<>>
  /\ mdYielded = <<>>
  /\ listing = <<<<>>>>
  /\ pc = "run"
  /\ errPath = ""
  /\ IdlePath /\ IdleResolve /\ IdleTransform

\* status.isDirectory() of the path the loop is at.
AtDirectory == pc = "run" /\ idx <= Len(queue) /\ kind[queue[idx].ino] = "dir"
AtFile == pc = "run" /\ idx <= Len(queue) /\ kind[queue[idx].ino] # "dir"

\* for (const entry of await readdir(path)) queue.push(join(path, entry))
PushEntriesFront(q, path, entries) ==
  SubSeq(q, 1, idx)
    \o [i \in 1..Len(entries) |-> [path |-> join(path, entries[i].name), ino |-> entries[i].ino]]
    \o SubSeq(q, idx + 1, Len(q))

PushEntries(q, path, entries) ==
  q \o [i \in 1..Len(entries) |-> [path |-> join(path, entries[i].name), ino |-> entries[i].ino]]

VisitDirectory ==
  /\ AtDirectory
  /\ queue[idx].ino \notin visited
  /\ visited' = visited \cup {queue[idx].ino}
  /\ \E es \in ListingChoices :
       /\ queue' = PushEntries(queue, queue[idx].path, readdir(es))
       /\ kind' = kind \o NewKinds(es)
       /\ listing' = [i \in 1..(NumNodes + Len(NewKinds(es))) |->
                        IF i = queue[idx].ino THEN readdir(es)
                        ELSE IF i <= NumNodes THEN listing[i] ELSE <<>>]
  /\ idx' = idx + 1
  /\ UNCHANGED <<root, yielded, mdYielded, pc, errPath>>
  /\ UNCHANGED <<pathVars, resolveVars, transformVars>>

\* A directory seen before is passed over without an error.
SkipCircular ==
  /\ AtDirectory
  /\ queue[idx].ino \in visited
  /\ idx' = idx + 1
  /\ UNCHANGED <<root, queue, visited, yielded, mdYielded, kind, listing, pc, errPath>>
  /\ UNCHANGED <<pathVars, resolveVars, transformVars>>

\* if (visited.has(status.ino)) throw new Error(`Circular directory: ${path}`)
ThrowCircular ==
  /\ AtDirectory
  /\ queue[idx].ino \in visited
  /\ pc' = "error"
  /\ errPath' = queue[idx].path
  /\ UNCHANGED <<root, queue, idx, visited, yielded, mdYielded, kind, listing>>
  /\ UNCHANGED <<pathVars, resolveVars, transformVars>>

\* visitMarkdownFiles: if (extname(file) !== ".md") continue; yield file
MarkdownFilterBySuffix(out, file) == IF EndsWith(file, ".md") THEN Append(out, file) ELSE out

MarkdownFilter(out, file) == IF extname(file) # ".md" THEN out ELSE Append(out, file)

YieldedAsQueued(r, path) == path

\* yield relative(root, path)
Yielded(r, path) == relative(r, path)

YieldFile ==
  /\ AtFile
  /\ yielded' = Append(yielded, Yielded(root, queue[idx].path))
  /\ mdYielded' = MarkdownFilter(mdYielded, Yielded(root, queue[idx].path))
  /\ idx' = idx + 1
  /\ UNCHANGED <<root, queue, visited, kind, listing, pc, errPath>>
  /\ UNCHANGED <<pathVars, resolveVars, transformVars>>

\* the for-of loop runs off the end of the queue
Finish ==
  /\ pc = "run"
  /\ idx > Len(queue)
  /\ pc' = "done"
  /\ UNCHANGED <<root, queue, idx, visited, yielded, mdYielded, kind, listing, errPath>>
  /\ UNCHANGED <<pathVars, resolveVars, transformVars>>

WalkNext == VisitDirectory \/ ThrowCircular \/ YieldFile \/ Finish

\* The consumer drains the generator: the loop keeps running until it ends.
WalkSpec == WalkInit /\ [][WalkNext]_vars /\ WF_vars(WalkNext)

----------------------------------------------------------------------------
(* The directory graph the walk has been shown, and what lies beneath root. *)

Range(seq) == {seq[i] : i \in 1..Len(seq)}

NoDuplicates(seq) == \A i, j \in 1..Len(seq) : seq[i] = seq[j] => i = j

Children(i) == {listing[i][k].ino : k \in 1..Len(listing[i])}

RECURSIVE Descendants(_, _)
Descendants(i, fuel) ==
  IF fuel = 0 THEN {}
  ELSE Children(i) \cup UNION {Descendants(c, fuel - 1) : c \in Children(i)}

\* Some directory is its own descendant: an entry leads back to an ancestor.
HasCycle == \E i \in 1..NumNodes : i \in Descendants(i, NumNodes)

\* The entries (directory, position) that lead to inode n.
EntriesTo(n) == {<<i, k>> \in (1..NumNodes) \X (1..MaxEntries) : k <= Len(listing[i]) /\ listing[i][k].ino = n}

\* Every directory is reached by one path only: root by none of the entries,
\* every other directory by exactly one.
DirectoriesFormTree ==
  /\ EntriesTo(1) = {}
  /\ \A n \in 2..NumNodes : kind[n] = "dir" => Cardinality(EntriesTo(n)) = 1

Terminated == pc \in {"done", "error"}

ChildPath(rel, nm) == IF rel = "" THEN nm ELSE rel \o "/" \o nm

\* The root-relative paths of everything beneath inode i that is no directory.
RECURSIVE FilesUnder(_, _, _)
FilesUnder(i, rel, fuel) ==
  IF fuel = 0 THEN {}
  ELSE UNION {
         IF kind[listing[i][k].ino] = "dir"
           THEN FilesUnder(listing[i][k].ino, ChildPath(rel, listing[i][k].name), fuel - 1)
         ELSE {ChildPath(rel, listing[i][k].name)} : k \in 1..Len(listing[i])}

FilesBeneathRoot == FilesUnder(1, "", NumNodes)

RECURSIVE Flatten(_)
Flatten(seqs) == IF Len(seqs) = 0 THEN <<>> ELSE Head(seqs) \o Flatten(Tail(seqs))

\* Level by level: the items at one depth, then their children in listing order.
RECURSIVE LevelOrder(_, _)
LevelOrder(items, fuel) ==
  IF Len(items) = 0 \/ fuel = 0 THEN <<>>
  ELSE items \o LevelOrder(
         Flatten([n \in 1..Len(items) |->
                    [k \in 1..Len(listing[items[n].ino]) |->
                       [rel |-> ChildPath(items[n].rel, listing[items[n].ino][k].name),
                        ino |-> listing[items[n].ino][k].ino]]]),
         fuel - 1)

LevelOrderFiles ==
  LET all == LevelOrder(<<[rel |-> "", ino |-> 1]>>, NumNodes + 1)
      files == SelectSeq(all, LAMBDA it : kind[it.ino] # "dir")
  IN  [n \in 1..Len(files) |-> files[n].rel]

Depth(rel) == Len(Split(rel))

IsMarkdownPath(rel) ==
  LET segs == Split(rel)
      b == segs[Len(segs)]
  IN  Len(b) >= 4 /\ EndsWith(b, ".md")

----------------------------------------------------------------------------
(* Properties of visitFiles and visitMarkdownFiles. *)

\* C1 as stated: whenever the directories under root contain no cycle, a
\* complete run of visitFiles ends without error and has yielded exactly the
\* root-relative paths of the files beneath root, each once.
C1_AcyclicWalkExact ==
  (Terminated /\ kind[1] = "dir" /\ ~HasCycle) =>
    /\ pc = "done"
    /\ NoDuplicates(yielded)
    /\ Range(yielded) = FilesBeneathRoot

\* C1 as amended: whenever every directory under root is reached by exactly one
\* path (no entry leads to a directory that another entry leads to, or to
\* root), a complete run of visitFiles ends without error and has yielded
\* exactly the root-relative paths of the entries beneath root that are not
\* directories, each once.
C1_TreeWalkExact ==
  (Terminated /\ kind[1] = "dir" /\ DirectoriesFormTree) =>
    /\ pc = "done"
    /\ NoDuplicates(yielded)
    /\ Range(yielded) = FilesBeneathRoot

\* A finished walk of a tree with a file below a subdirectory, beside others.
C1_Witness ==
  /\ pc = "done" /\ kind[1] = "dir" /\ DirectoriesFormTree
  /\ Len(yielded) >= 2
  /\ \E i \in 1..Len(yielded) : Depth(yielded[i]) >= 2
  /\ root = "r/"

\* C2: visitFiles terminates, with the queue exhausted or with the circular
\* directory error naming the path it was at; once an entry leads back to an
\* ancestor directory the walk ends with that error, and it never completes
\* normally.
C2_TerminatesOrCircular ==
  /\ <>Terminated
  /\ [](HasCycle => pc # "done")
  /\ (HasCycle ~> pc = "error")
  /\ [](pc = "error" => /\ idx <= Len(queue)
                         /\ errPath = queue[idx].path
                         /\ queue[idx].ino \in visited)
  /\ [](pc = "done" => idx = Len(queue) + 1)

\* The walk stopped with the error on a path that leads back to an ancestor.
C2_Witness == pc = "error" /\ HasCycle /\ Len(yielded) >= 1

StepIsFifo ==
  /\ idx' \in {idx, idx + 1}
  /\ Len(queue') >= Len(queue)
  /\ SubSeq(queue', 1, Len(queue)) = queue
  /\ \A n \in 1..(Len(queue') - Len(queue)) :
       queue'[Len(queue) + n] =
         [path |-> join(queue[idx].path, listing'[queue[idx].ino][n].name),
          ino |-> listing'[queue[idx].ino][n].ino]
  /\ yielded' # yielded => yielded' = Append(yielded, relative(root, queue[idx].path))

DepthsNeverDecrease ==
  \A i, j \in 1..Len(yielded) : i < j => Depth(yielded[i]) <= Depth(yielded[j])

\* C10: the path the loop is at is the oldest unprocessed queue entry, a
\* directory's children are appended in listing order behind everything already
\* queued, the depths of the yielded files never decrease, and a finished walk
\* has yielded the files in level order of the listings.
C10_BreadthFirst ==
  /\ [][StepIsFifo]_vars
  /\ [](DepthsNeverDecrease)
  /\ [](pc = "done" => yielded = LevelOrderFiles)

\* A finished walk that yielded files of two depths.
C10_Witness ==
  /\ pc = "done"
  /\ \E i, j \in 1..Len(yielded) : Depth(yielded[i]) < Depth(yielded[j])
  /\ \E i \in 1..Len(queue) : i + 1 < Len(queue) /\ kind[queue[i].ino] = "file" /\ kind[queue[i + 1].ino] = "dir"

----------------------------------------------------------------------------
(* resolveImport (rollup.ts) and what it calls. *)

\* getClientPath(entry): the path of a client asset of the package.
getClientPath(entry) == normalize(entry)

\* relativeUrl(source, target): the URL of target relative to source's directory.
relativeUrl(src, target) ==
  LET r == relative(dirname(join("/", src)), join("/", target))
  IN  IF StartsWith(r, "../") THEN r ELSE "./" \o r

\* isPathImport(specifier)
isPathImport(s) == StartsWith(s, "./") \/ StartsWith(s, "../") \/ StartsWith(s, "/")

\* resolveNpmImport(specifier): what the package registry resolves it to.
resolveNpmImport(s) == "https://cdn.jsdelivr.net/npm/" \o s \o "/+esm"

\* A specifier is a string or a syntax-tree node.
Str(s) == [type |-> "string", value |-> s]
AstNode == [type |-> "object", value |-> ""]

Sources == {"src/client/main.js", "docs/a/index.js", "d3", "./util.js"}

SpecifierStrings ==
  {"observablehq:stdlib", "observablehq:runtime", "observablehq:stdlib/dot", "observablehq:",
   "observablehq:npm:d3",
   "npm:@observablehq/runtime", "npm:@observablehq/stdlib", "npm:@observablehq/dot",
   "npm:@observablehq/duckdb", "npm:@observablehq/inputs", "npm:@observablehq/mermaid",
   "npm:@observablehq/tex", "npm:@observablehq/sqlite", "npm:@observablehq/xlsx",
   "npm:@observablehq/zip",
   "npm:d3", "npm:@observablehq/plot", "npm:@observablehq/runtime@5", "npm:", "npm:observablehq:x",
   "npm:@observablehq/leaflet",
   "d3", "@observablehq/inputs", "@observablehq/plot", "@observablehq/runtime", "npm", "observablehq",
   "./util.js", "../lib/x.js", "/abs.js", "src/client/main.js", "", ".", "..", "https://example.com/x.js"}

Specifiers == {Str(s) : s \in SpecifierStrings} \cup {AstNode}

ClientImport(src, entry) == [id |-> relativeUrl(src, getClientPath(entry)), external |-> TRUE]

\* What resolveImport returns when it returns ([value]), and the specifiers it
\* hands to resolveNpmImport on the way ([calls]).
Returns(v) == [value |-> v, calls |-> <<>>]

NpmBranch(src, spec) ==
  [value |-> Some([id |-> resolveNpmImport(Slice(spec.value, Len("npm:")))]),
   calls |-> <<Slice(spec.value, Len("npm:"))>>]

BareBranchInlining(src, spec) == Returns(Null)

BareBranch(src, spec) ==
  IF src # spec.value /\ ~isPathImport(spec.value) /\ spec.value # "@observablehq/inputs"
    THEN [value |-> Some([id |-> resolveNpmImport(spec.value), external |-> TRUE]),
          calls |-> <<spec.value>>]
  ELSE Returns(Null)

AliasBranchNpmFirst(src, spec) ==
  IF StartsWith(spec.value, "npm:") THEN NpmBranch(src, spec)
  ELSE BareBranch(src, spec)

AliasBranch(src, spec) ==
  IF StartsWith(spec.value, "observablehq:")
    THEN Returns(Some(ClientImport(src, "./src/client/" \o Slice(spec.value, Len("observablehq:")) \o ".js")))
  ELSE IF spec.value = "npm:@observablehq/runtime"
    THEN Returns(Some(ClientImport(src, "./src/client/runtime.js")))
  ELSE IF spec.value = "npm:@observablehq/stdlib"
    THEN Returns(Some(ClientImport(src, "./src/client/stdlib.js")))
  ELSE IF spec.value = "npm:@observablehq/dot"
    THEN Returns(Some(ClientImport(src, "./src/client/stdlib/dot.js")))
  ELSE IF spec.value = "npm:@observablehq/duckdb"
    THEN Returns(Some(ClientImport(src, "./src/client/stdlib/duckdb.js")))
  ELSE IF spec.value = "npm:@observablehq/inputs"
    THEN Returns(Some(ClientImport(src, "./src/client/stdlib/inputs.js")))
  ELSE IF spec.value = "npm:@observablehq/mermaid"
    THEN Returns(Some(ClientImport(src, "./src/client/stdlib/mermaid.js")))
  ELSE IF spec.value = "npm:@observablehq/tex"
    THEN Returns(Some(ClientImport(src, "./src/client/stdlib/tex.js")))
  ELSE IF spec.value = "npm:@observablehq/sqlite"
    THEN Returns(Some(ClientImport(src, "./src/client/stdlib/sqlite.js")))
  ELSE IF spec.value = "npm:@observablehq/xlsx"
    THEN Returns(Some(ClientImport(src, "./src/client/stdlib/xlsx.js")))
  ELSE IF spec.value = "npm:@observablehq/zip"
    THEN Returns(Some(ClientImport(src, "./src/client/stdlib/zip.js")))
  ELSE IF StartsWith(spec.value, "npm:") THEN NpmBranch(src, spec)
  ELSE BareBranch(src, spec)

resolveImport(src, spec) ==
  IF spec.type # "string" THEN Returns(Null)
  ELSE AliasBranch(src, spec)

\* One call of the resolveId or of the resolveDynamicImport hook.  An error of
\* resolveNpmImport is not caught: the call throws it.
ResolveImport ==
  /\ resolvePc = "idle"
  /\ \E src \in Sources, spec \in Specifiers, found \in BOOLEAN :
       /\ source' = src
       /\ specifier' = spec
       /\ npmCalls' = resolveImport(src, spec).calls
       /\ IF found \/ resolveImport(src, spec).calls = <<>>
            THEN resolution' = resolveImport(src, spec).value /\ resolvePc' = "returned"
            ELSE resolution' = Null /\ resolvePc' = "threw"
  /\ UNCHANGED <<pathVars, walkVars, transformVars>>

ResolveInit == IdlePath /\ IdleWalk /\ IdleResolve /\ IdleTransform

ResolveNext == ResolveImport

ResolveSpec == ResolveInit /\ [][ResolveNext]_vars

\* The first-party aliases and the client asset of each.
AliasAsset ==
  "npm:@observablehq/runtime" :> "./src/client/runtime.js" @@
  "npm:@observablehq/stdlib" :> "./src/client/stdlib.js" @@
  "npm:@observablehq/dot" :> "./src/client/stdlib/dot.js" @@
  "npm:@observablehq/duckdb" :> "./src/client/stdlib/duckdb.js" @@
  "npm:@observablehq/inputs" :> "./src/client/stdlib/inputs.js" @@
  "npm:@observablehq/mermaid" :> "./src/client/stdlib/mermaid.js" @@
  "npm:@observablehq/tex" :> "./src/client/stdlib/tex.js" @@
  "npm:@observablehq/sqlite" :> "./src/client/stdlib/sqlite.js" @@
  "npm:@observablehq/xlsx" :> "./src/client/stdlib/xlsx.js" @@
  "npm:@observablehq/zip" :> "./src/client/stdlib/zip.js"

IsString == specifier # Null /\ specifier.type = "string"
IsReserved == IsString /\ StartsWith(specifier.value, "observablehq:")
IsAlias == IsString /\ specifier.value \in DOMAIN AliasAsset
IsNpm == IsString /\ StartsWith(specifier.value, "npm:")
Called == resolvePc \in {"returned", "threw"}

IsExternal(r) == "external" \in DOMAIN r /\ r.external = TRUE

\* C4: for a string specifier that begins with "npm:" and is no first-party
\* alias, resolveImport hands the remainder to resolveNpmImport and returns its
\* result marked external: true.
C4_NpmIsExternal ==
  (Called /\ IsNpm /\ ~IsAlias) =>
    /\ npmCalls = <<Slice(specifier.value, 4)>>
    /\ resolvePc = "returned" =>
         /\ resolution # Null
         /\ resolution[1].id = resolveNpmImport(Slice(specifier.value, 4))
         /\ IsExternal(resolution[1])

\* C5: whatever the source, a specifier that begins with "observablehq:" yields
\* external: true and the URL, relative to source, of the client asset the
\* remainder names; a first-party alias yields external: true and the URL of
\* its own asset; resolveNpmImport is called in neither case.
C5_ReservedAndAliases ==
  /\ (Called /\ IsReserved) =>
       /\ resolvePc = "returned"
       /\ npmCalls = <<>>
       /\ resolution =
            Some([id |-> relativeUrl(source, getClientPath("./src/client/" \o Slice(specifier.value, 13) \o ".js")),
                  external |-> TRUE])
  /\ (Called /\ IsAlias) =>
       /\ resolvePc = "returned"
       /\ npmCalls = <<>>
       /\ resolution =
            Some([id |-> relativeUrl(source, getClientPath(AliasAsset[specifier.value])),
                  external |-> TRUE])

\* An alias resolved from a module two directories down.
C5_Witness ==
  /\ resolvePc = "returned" /\ IsAlias
  /\ specifier.value = "npm:@observablehq/zip"
  /\ source = "docs/a/index.js"
  /\ resolution[1].id = "../../src/client/stdlib/zip.js"

\* A path import: it begins with "/" or with a "." or ".." segment.
IsPathLike(s) == Len(Split(s)) >= 2 /\ Split(s)[1] \in {"", ".", ".."}

IsBareName ==
  /\ IsString
  /\ ~IsPathLike(specifier.value)
  /\ specifier.value # source
  /\ specifier.value # "@observablehq/inputs"

\* C6: for a specifier with neither prefix, a bare name (a string that is no
\* path import, not the resolving module and not "@observablehq/inputs") is
\* handed to resolveNpmImport and the result is marked external: true; anything
\* else yields null without a call of resolveNpmImport.
C6_BareOrNull ==
  (Called /\ ~IsReserved /\ ~IsNpm) =>
    IF IsBareName
      THEN /\ npmCalls = <<specifier.value>>
           /\ resolvePc = "returned" =>
                resolution = Some([id |-> resolveNpmImport(specifier.value), external |-> TRUE])
    ELSE /\ resolvePc = "returned"
         /\ resolution = Null
         /\ npmCalls = <<>>

\* A bare name was resolved, after a path import and a syntax-tree node were not.
C6_Witness ==
  /\ resolvePc = "returned"
  /\ specifier = Str("@observablehq/plot")
  /\ source = "./util.js"
  /\ resolution # Null

----------------------------------------------------------------------------
(* importMetaResolve.transform: the syntax tree of a module.                *)

\* input.slice(from, to)
Substring(s, from, to) == SubSeq(s, from + 1, to)

\* Nodes of the syntax tree, as far as the plugin reads them.  A Literal
\* carries its raw text, a MetaProperty the text of its two names.
Identifier(n) == [type |-> "Identifier", name |-> n]
Literal(raw) == [type |-> "Literal", name |-> raw]
MetaProperty(n) == [type |-> "MetaProperty", name |-> n]
MemberExpression(object, property) ==
  [type |-> "MemberExpression", object |-> object, property |-> property]

\* The text of an expression.
SourceOf(callee) ==
  IF callee.type = "MemberExpression"
    THEN IF callee.property.type = "Identifier"
           THEN callee.object.name \o "." \o callee.property.name
         ELSE callee.object.name \o "[" \o callee.property.name \o "]"
  ELSE callee.name

RECURSIVE ArgumentsText(_)
ArgumentsText(args) ==
  IF args = <<>> THEN ""
  ELSE IF Len(args) = 1 THEN args[1].name
  ELSE args[1].name \o ", " \o ArgumentsText(Tail(args))

CallText(callee, args) == SourceOf(callee) \o "(" \o ArgumentsText(args) \o ")"

\* A CallExpression at [start, end) of the text it is parsed from.
CallExpression(start, callee, args) ==
  [start |-> start, end |-> start + Len(CallText(callee, args)),
   callee |-> callee, arguments |-> args]

\* A statement of a module: its text, and the CallExpression nodes the walk
\* finds in it, in the order it finds them (offsets from the statement's start).
ExpressionStatement(callee, args) ==
  [text |-> CallText(callee, args) \o ";\n",
   calls |-> <<CallExpression(0, callee, args)>>]

\* f(<call>); the inner call is walked before the outer one.
NestedStatement(callee, args) ==
  [text |-> "f(" \o CallText(callee, args) \o ");\n",
   calls |-> <<CallExpression(2, callee, args),
               [start |-> 0, end |-> Len(CallText(callee, args)) + 3,
                callee |-> Identifier("f"), arguments |-> <<Identifier("_")>>]>>]

PlainStatement(text) == [text |-> text, calls |-> <<>>]

ImportMeta == MetaProperty("import.meta")
NewTarget == MetaProperty("new.target")
ImportMetaResolve == MemberExpression(ImportMeta, Identifier("resolve"))

Statements ==
  { PlainStatement("const x = 1;\n"),
    PlainStatement("// import.meta.resolve(\"npm:d3\")\n"),
    ExpressionStatement(ImportMetaResolve, <<Literal("\"npm:d3\"")>>),
    ExpressionStatement(ImportMetaResolve, <<Literal("'npm:@observablehq/plot'")>>),
    ExpressionStatement(ImportMetaResolve, <<Literal("\"./a.js\"")>>),
    ExpressionStatement(ImportMetaResolve, <<Literal("\"d3\"")>>),
    ExpressionStatement(ImportMetaResolve, <<Identifier("x")>>),
    ExpressionStatement(ImportMetaResolve, <<Literal("1")>>),
    ExpressionStatement(ImportMetaResolve, <<Literal("\"npm:d3\""), Literal("\"x\"")>>),
    ExpressionStatement(ImportMetaResolve, <<>>),
    ExpressionStatement(MemberExpression(ImportMeta, Identifier("resolved")), <<Literal("\"npm:d3\"")>>),
    ExpressionStatement(MemberExpression(ImportMeta, Literal("\"resolve\"")), <<Literal("\"npm:d3\"")>>),
    ExpressionStatement(MemberExpression(Identifier("foo"), Identifier("resolve")), <<Literal("\"npm:d3\"")>>),
    ExpressionStatement(MemberExpression(NewTarget, Identifier("resolve")), <<Literal("\"npm:d3\"")>>),
    ExpressionStatement(Identifier("resolve"), <<Literal("\"npm:d3\"")>>),
    NestedStatement(ImportMetaResolve, <<Literal("\"npm:d3\"")>>) }

\* The modules: up to MaxStatements statements.
RECURSIVE ModulesUpTo(_)
ModulesUpTo(n) ==
  IF n = 0 THEN {<<>>}
  ELSE ModulesUpTo(n - 1) \cup
       {Append(m, st) : m \in {m \in ModulesUpTo(n - 1) : Len(m) = n - 1}, st \in Statements}

Modules == ModulesUpTo(MaxStatements)

RECURSIVE TextOf(_)
TextOf(module) == IF module = <<>> THEN "" ELSE Head(module).text \o TextOf(Tail(module))

ShiftBy(calls, offset) ==
  [i \in 1..Len(calls) |->
     [calls[i] EXCEPT !.start = @ + offset, !.end = @ + offset]]

\* this.parse(code) followed by the walk: the CallExpression nodes of the
\* program, in the order the walk visits them.
RECURSIVE ParseFrom(_, _)
ParseFrom(module, offset) ==
  IF module = <<>> THEN <<>>
  ELSE ShiftBy(Head(module).calls, offset) \o
       ParseFrom(Tail(module), offset + Len(Head(module).text))

parse(module) == ParseFrom(module, 0)

----------------------------------------------------------------------------
(* importMetaResolve.transform.                                             *)

\* isStringLiteral(node): a literal whose raw text is quoted.
isStringLiteral(node) ==
  node.type = "Literal" /\ Len(node.name) >= 2 /\ Char(node.name, 1) \in {"\"", "'"}

\* getStringLiteralValue(node): the raw text without its quotes.
getStringLiteralValue(node) == Substring(node.name, 1, Len(node.name) - 1)

\* JSON.stringify of a string.
RECURSIVE JsonEscape(_)
JsonEscape(s) ==
  IF s = "" THEN ""
  ELSE (IF Char(s, 1) \in {"\"", "\\"} THEN "\\" \o Char(s, 1) ELSE Char(s, 1))
       \o JsonEscape(Slice(s, 1))

JsonStringify(s) == "\"" \o JsonEscape(s) \o "\""

\* Sourcemap: the input and a list of edits kept in order of position.
RECURSIVE BisectLeft(_, _, _)
BisectLeft(es, start, i) ==
  IF i > Len(es) \/ es[i].start >= start THEN i ELSE BisectLeft(es, start, i + 1)

replaceLeft(es, start, end, value) ==
  LET i == BisectLeft(es, start, 1)
  IN  SubSeq(es, 1, i - 1) \o <<[start |-> start, end |-> end, value |-> value]>>
        \o SubSeq(es, i, Len(es))

\* String(output): the input with every edit applied at its original offsets.
RECURSIVE SourcemapFrom(_, _, _, _)
SourcemapFrom(input, es, i, from) ==
  IF i > Len(es) THEN Substring(input, from, Len(input))
  ELSE Substring(input, from, es[i].start) \o es[i].value
       \o SourcemapFrom(input, es, i + 1, es[i].end)

SourcemapToString(input, es) == SourcemapFrom(input, es, 1, 0)

\* The test of the CallExpression visitor.
IsResolveCall(node) ==
  /\ node.callee.type = "MemberExpression"
  /\ node.callee.object.type = "MetaProperty"
  /\ node.callee.property.type = "Identifier"
  /\ node.callee.property.name = "resolve"
  /\ Len(node.arguments) = 1
  /\ isStringLiteral(node.arguments[1])

NoResolvesIgnored(found) == FALSE

\* !resolves.length
NoResolves(found) == Len(found) = 0

\* transform(code), up to the first await: parse, collect the calls, and
\* return null when there is none.
Transform ==
  /\ transformPc = "idle"
  /\ \E module \in Modules :
       LET found == SelectSeq(parse(module), IsResolveCall)
       IN  /\ code' = TextOf(module)
           /\ program' = parse(module)
           /\ resolves' = found
           /\ IF NoResolves(found)
                THEN nodeIdx' = 0 /\ transformPc' = "returned"
              ELSE nodeIdx' = 1 /\ transformPc' = "rewriting"
  /\ edits' = <<>>
  /\ rewriteCalls' = <<>>
  /\ transformed' = Null
  /\ UNCHANGED <<pathVars, walkVars, resolveVars>>

\* One turn of the loop over resolves, resolveNpmImport answering.
RewriteNode ==
  /\ transformPc = "rewriting"
  /\ nodeIdx <= Len(resolves)
  /\ LET node == resolves[nodeIdx]
         spec == getStringLiteralValue(node.arguments[1])
     IN  IF StartsWith(spec, "npm:")
           THEN /\ rewriteCalls' = Append(rewriteCalls, Slice(spec, Len("npm:")))
                /\ edits' = replaceLeft(edits, node.start, node.end,
                                        JsonStringify(resolveNpmImport(Slice(spec, Len("npm:")))))
         ELSE UNCHANGED <<rewriteCalls, edits>>
  /\ nodeIdx' = nodeIdx + 1
  /\ UNCHANGED <<code, program, resolves, transformed, transformPc>>
  /\ UNCHANGED <<pathVars, walkVars, resolveVars>>

\* One turn of the loop, resolveNpmImport failing: transform throws.
RejectNode ==
  /\ transformPc = "rewriting"
  /\ nodeIdx <= Len(resolves)
  /\ LET spec == getStringLiteralValue(resolves[nodeIdx].arguments[1])
     IN  /\ StartsWith(spec, "npm:")
         /\ rewriteCalls' = Append(rewriteCalls, Slice(spec, Len("npm:")))
  /\ transformPc' = "threw"
  /\ UNCHANGED <<code, program, resolves, nodeIdx, edits, transformed>>
  /\ UNCHANGED <<pathVars, walkVars, resolveVars>>

\* return {code: String(output)}
ReturnCode ==
  /\ transformPc = "rewriting"
  /\ nodeIdx > Len(resolves)
  /\ transformed' = Some([code |-> SourcemapToString(code, edits)])
  /\ transformPc' = "returned"
  /\ UNCHANGED <<code, program, resolves, nodeIdx, edits, rewriteCalls>>
  /\ UNCHANGED <<pathVars, walkVars, resolveVars>>

TransformInit == IdlePath /\ IdleWalk /\ IdleResolve /\ IdleTransform

TransformNext == Transform \/ RewriteNode \/ RejectNode \/ ReturnCode

TransformSpec == TransformInit /\ [][TransformNext]_vars

\* A call site import.meta.resolve(<one string literal>).
IsImportMetaResolveSite(node) ==
  /\ SourceOf(node.callee) = "import.meta.resolve"
  /\ Len(node.arguments) = 1
  /\ node.arguments[1].type = "Literal"
  /\ \E q \in {"\"", "'"} : StartsWith(node.arguments[1].name, q) /\ EndsWith(node.arguments[1].name, q)

\* The package such a site names, when its literal begins with "npm:".
IsNpmSite(node) == IsImportMetaResolveSite(node) /\ StartsWith(Slice(node.arguments[1].name, 1), "npm:")

PackageOf(node) == Substring(node.arguments[1].name, 5, Len(node.arguments[1].name) - 1)

\* text with the range of each of the sites replaced, last site first.
RECURSIVE ReplaceSites(_, _)
ReplaceSites(text, sites) ==
  IF sites = <<>> THEN text
  ELSE LET site == sites[Len(sites)]
       IN  ReplaceSites(Substring(text, 0, site.start)
                          \o "\"" \o resolveNpmImport(PackageOf(site)) \o "\""
                          \o Substring(text, site.end, Len(text)),
                        SubSeq(sites, 1, Len(sites) - 1))

\* C7: the text the transform returns is the input with the range of every
\* import.meta.resolve(<one string literal>) call site whose literal begins
\* with "npm:" replaced by the quoted resolution of the remainder, at the
\* offsets of the input; every other byte is the input's, in the same order.
C7_OnlyNpmSitesRewritten ==
  transformPc = "returned" =>
    IF transformed = Null THEN SelectSeq(program, IsNpmSite) = <<>>
    ELSE transformed[1].code = ReplaceSites(code, SelectSeq(program, IsNpmSite))

\* A call of the shape <meta property>.resolve(<one string literal>).
IsEligible(node) ==
  /\ \E m \in {"import.meta", "new.target"} : SourceOf(node.callee) = m \o ".resolve"
  /\ Len(node.arguments) = 1
  /\ node.arguments[1].type = "Literal"
  /\ \E q \in {"\"", "'"} : StartsWith(node.arguments[1].name, q)

====
